---- MODULE Spec2Model ----
(***************************************************************************)
(* rmerger: merging Redis RDB v6 snapshots.                                *)
(*                                                                         *)
(* The module has three layers:                                            *)
(*   1. the byte-level codec of src/src/parser.rs (nom parsers, RDBSer,    *)
(*      String::decode), as operators on sequences of bytes;               *)
(*   2. the partition store PartRDB of src/src/file.rs (write,             *)
(*      close_part_files, merge), as operators on the store's state;       *)
(*   3. the driver main of src/src/main.rs, as a state machine.            *)
(*                                                                         *)
(* Bytes are the integers 0..255, a slice is a sequence of bytes.  A nom   *)
(* result is a record whose field k is "Done" (with output o and remaining *)
(* input i), "Error" or "Incomplete".  The parser combinators follow nom   *)
(* 1.x: take!/be_u*/bits! answer Incomplete on short input, tag! and       *)
(* switch! answer Error on a mismatch, many0! stops on Error and passes    *)
(* Incomplete on, and a `?` element of chain! passes Incomplete on.        *)
(***************************************************************************)
EXTENDS Integers, Sequences, FiniteSets, TLC

(***************************** nom results *********************************)

Done(o, i) == [k |-> "Done", o |-> o, i |-> i]

Error == [k |-> "Error"]

Incomplete == [k |-> "Incomplete"]

IsDone(r) == r.k = "Done"

\* one step of chain!: the parser that follows runs on a Done result, and any
\* other result is the result of the chain
Then(r, F(_)) == IF IsDone(r) THEN F(r) ELSE r

Take(i, n) == SubSeq(i, 1, n)

Drop(i, n) == SubSeq(i, n + 1, Len(i))

\* take!(n)
take(i, n) == IF Len(i) < n THEN Incomplete ELSE Done(Take(i, n), Drop(i, n))

\* tag!([b]) for a one-byte tag
tag(i, b) ==
    IF Len(i) = 0 THEN Incomplete
    ELSE IF i[1] = b THEN Done(<<b>>, Drop(i, 1)) ELSE Error

(************************* length encoding *********************************)

\* EncodedLength::I(n, s) and EncodedLength::S(v, s)
I(n, s) == [t |-> "I", n |-> n, s |-> s]

S(v, s) == [t |-> "S", n |-> v, s |-> s]

\* impl From<EncodedLength> for u32
u32_from(l) == IF l.t = "I" THEN l.n ELSE 0

\* encoded_length without the mask of the 14-bit form
encoded_length_unmasked(i) ==
    IF Len(i) = 0 THEN Incomplete
    ELSE LET top == i[1] \div 64
             v   == i[1] % 64
         IN  CASE top = 0 -> Done(I(v, Take(i, 1)), Drop(i, 1))
               [] top = 1 ->
                    IF Len(i) < 2 THEN Incomplete
                    ELSE Done(I(i[1] * 256 + i[2], Take(i, 2)), Drop(i, 2))
               [] top = 2 ->
                    IF Len(i) < 5 THEN Incomplete
                    ELSE Done(I(((i[2] * 256 + i[3]) * 256 + i[4]) * 256 + i[5],
                                Take(i, 5)),
                              Drop(i, 5))
               [] top = 3 -> Done(S(v, Take(i, 1)), Drop(i, 1))

encoded_length(i) ==
    IF Len(i) = 0 THEN Incomplete
    ELSE LET top == i[1] \div 64
             v   == i[1] % 64
         IN  CASE top = 0 -> Done(I(v, Take(i, 1)), Drop(i, 1))
               [] top = 1 ->
                    IF Len(i) < 2 THEN Incomplete
                    ELSE Done(I((i[1] * 256 + i[2]) % 16384, Take(i, 2)), Drop(i, 2))
               [] top = 2 ->
                    IF Len(i) < 5 THEN Incomplete
                    ELSE Done(I(((i[2] * 256 + i[3]) * 256 + i[4]) * 256 + i[5],
                                Take(i, 5)),
                              Drop(i, 5))
               [] top = 3 -> Done(S(v, Take(i, 1)), Drop(i, 1))

(************************* string encoding *********************************)

Raw(s, v) == [t |-> "Raw", s |-> s, v |-> v]

Int_(s, v) == [t |-> "Int", s |-> s, v |-> v]

Lzf(s, t, u, v) == [t |-> "Lzf", s |-> s, c |-> t, u |-> u, v |-> v]

\* map!(take!(n), |v| Raw(s, v)) and map!(take!(n), |v| Int(s, v))
TakePayload(i, n, s, variant) ==
    Then(take(i, n),
         LAMBDA r : Done(IF variant = "Raw" THEN Raw(s, r.o) ELSE Int_(s, r.o), r.i))

\* the S(3) arm of encoded_string
lzf_string(s, i) ==
    Then(encoded_length(i), LAMBDA tr :
    Then(encoded_length(tr.i), LAMBDA ur :
    Then(take(ur.i, u32_from(tr.o)), LAMBDA vr :
         Done(Lzf(s, tr.o, ur.o, vr.o), vr.i))))

\* the switch! with an integer of v + 1 bytes for the special variant v
string_payload_width(s, i) ==
    CASE s.t = "I"            -> TakePayload(i, s.n, s, "Raw")
      [] s.t = "S" /\ s.n = 0 -> TakePayload(i, 1, s, "Int")
      [] s.t = "S" /\ s.n = 1 -> TakePayload(i, 2, s, "Int")
      [] s.t = "S" /\ s.n = 2 -> TakePayload(i, 3, s, "Int")
      [] s.t = "S" /\ s.n = 3 -> lzf_string(s, i)
      [] OTHER                -> Error

\* the switch! of encoded_string over the length read
string_payload(s, i) ==
    CASE s.t = "I"            -> TakePayload(i, s.n, s, "Raw")
      [] s.t = "S" /\ s.n = 0 -> TakePayload(i, 1, s, "Int")
      [] s.t = "S" /\ s.n = 1 -> TakePayload(i, 2, s, "Int")
      [] s.t = "S" /\ s.n = 2 -> TakePayload(i, 4, s, "Int")
      [] s.t = "S" /\ s.n = 3 -> lzf_string(s, i)
      [] OTHER                -> Error

encoded_string(i) == Then(encoded_length(i), LAMBDA sr : string_payload(sr.o, sr.i))

(*************************** value encodings ********************************)

\* bitflags! ValueType
VT_STRING == 0

VT_LIST == 1

VT_SET == 2

VT_SORTEDSET == 3

VT_HASHMAP == 4

VT_ZIPLIST == 10

VT_INTSET == 11

VT_SORTEDSET_ZIPLIST == 12

VT_HASHMAP_ZIPLIST == 13

ValueTypeFlags ==
    <<VT_STRING, VT_LIST, VT_SET, VT_SORTEDSET, VT_HASHMAP, VT_ZIPLIST, VT_INTSET,
      VT_SORTEDSET_ZIPLIST, VT_HASHMAP_ZIPLIST>>

RECURSIVE BitAnd(_, _)
BitAnd(a, b) ==
    IF a = 0 \/ b = 0 THEN 0
    ELSE (IF a % 2 = 1 /\ b % 2 = 1 THEN 1 ELSE 0) + 2 * BitAnd(a \div 2, b \div 2)

RECURSIVE BitOr(_, _)
BitOr(a, b) ==
    IF a = 0 THEN b
    ELSE IF b = 0 THEN a
    ELSE (IF a % 2 = 1 \/ b % 2 = 1 THEN 1 ELSE 0) + 2 * BitOr(a \div 2, b \div 2)

\* ValueType::all(): the union of the declared flags
RECURSIVE ValueType_all_from(_)
ValueType_all_from(n) ==
    IF n > Len(ValueTypeFlags) THEN 0
    ELSE BitOr(ValueTypeFlags[n], ValueType_all_from(n + 1))

ValueType_all == ValueType_all_from(1)

\* ValueType::from_bits_truncate: the bits that belong to no flag are dropped
from_bits_truncate(n) == BitAnd(n, ValueType_all)

\* bits!(pair!(tag_bits!(u8, 1, 0b0), take_bits!(u8, 7))) mapped through
\* from_bits_truncate
value_type(i) ==
    IF Len(i) = 0 THEN Incomplete
    ELSE IF i[1] >= 128 THEN Error
    ELSE Done(from_bits_truncate(i[1] % 128), Drop(i, 1))

\* count!(encoded_string, n)
RECURSIVE count_encoded_string(_, _, _)
count_encoded_string(i, n, res) ==
    IF Len(res) = n THEN Done(res, i)
    ELSE Then(encoded_string(i), LAMBDA r : count_encoded_string(r.i, n, Append(res, r.o)))

encoded_sequence(i) ==
    Then(encoded_length(i), LAMBDA sr :
    Then(count_encoded_string(sr.i, u32_from(sr.o), <<>>), LAMBDA vr :
         Done([s |-> sr.o, v |-> vr.o], vr.i)))

encoded_list(i) == encoded_sequence(i)

encoded_set(i) == encoded_sequence(i)

\* chain!(w: encoded_string ~ u: be_u8 ~ f: take!(u), || (w, u, f))
scored_member(i) ==
    Then(encoded_string(i), LAMBDA wr :
    Then(take(wr.i, 1), LAMBDA ur :
    Then(take(ur.i, ur.o[1]), LAMBDA fr :
         Done(<<wr.o, ur.o[1], fr.o>>, fr.i))))

RECURSIVE count_scored_member(_, _, _)
count_scored_member(i, n, res) ==
    IF Len(res) = n THEN Done(res, i)
    ELSE Then(scored_member(i), LAMBDA r : count_scored_member(r.i, n, Append(res, r.o)))

encoded_sortedset(i) ==
    Then(encoded_length(i), LAMBDA sr :
    Then(count_scored_member(sr.i, u32_from(sr.o), <<>>), LAMBDA vr :
         Done([s |-> sr.o, v |-> vr.o], vr.i)))

\* pair!(encoded_string, encoded_string)
string_pair(i) ==
    Then(encoded_string(i), LAMBDA kr :
    Then(encoded_string(kr.i), LAMBDA vr :
         Done(<<kr.o, vr.o>>, vr.i)))

RECURSIVE count_string_pair(_, _, _)
count_string_pair(i, n, res) ==
    IF Len(res) = n THEN Done(res, i)
    ELSE Then(string_pair(i), LAMBDA r : count_string_pair(r.i, n, Append(res, r.o)))

encoded_hash(i) ==
    Then(encoded_length(i), LAMBDA sr :
    Then(count_string_pair(sr.i, u32_from(sr.o), <<>>), LAMBDA tr :
         Done([s |-> sr.o, v |-> tr.o], tr.i)))

\* the nine value parsers of record; the four packed encodings
\* (encoded_ziplist, encoded_intset, encoded_sortedset_ziplist,
\* encoded_hashmap_ziplist) are each one encoded_string
encoded_value(t, i) ==
    CASE t \in {VT_STRING, VT_ZIPLIST, VT_INTSET, VT_SORTEDSET_ZIPLIST, VT_HASHMAP_ZIPLIST}
                           -> encoded_string(i)
      [] t \in {VT_LIST, VT_SET} -> encoded_sequence(i)
      [] t = VT_SORTEDSET  -> encoded_sortedset(i)
      [] t = VT_HASHMAP    -> encoded_hash(i)
      [] OTHER             -> Error

\* EncodedValue::V0 .. EncodedValue::VD
variant_of(t) ==
    CASE t = VT_STRING            -> "V0"
      [] t = VT_LIST              -> "V1"
      [] t = VT_SET               -> "V2"
      [] t = VT_SORTEDSET         -> "V3"
      [] t = VT_HASHMAP           -> "V4"
      [] t = VT_ZIPLIST           -> "VA"
      [] t = VT_INTSET            -> "VB"
      [] t = VT_SORTEDSET_ZIPLIST -> "VC"
      [] t = VT_HASHMAP_ZIPLIST   -> "VD"

(************************ record, database, rdb ****************************)

MilliSec(e) == [t |-> "MilliSec", e |-> e]

Sec(e) == [t |-> "Sec", e |-> e]

\* chain!(tag!([0xfc]) ~ e: take!(8), || MilliSec(e))
expiry_time_msec(i) ==
    Then(tag(i, 252), LAMBDA tr : Then(take(tr.i, 8), LAMBDA er : Done(MilliSec(er.o), er.i)))

\* chain!(tag!([0xfd]) ~ e: take!(4), || Sec(e))
expiry_time_sec(i) ==
    Then(tag(i, 253), LAMBDA tr : Then(take(tr.i, 4), LAMBDA er : Done(Sec(er.o), er.i)))

\* alt!(a | b): b is tried when a answers Error
Alt(a, b) == IF a.k = "Error" THEN b ELSE a

\* an element of chain! marked `?`: Incomplete is the result of the chain,
\* Error leaves the input where it was and the output None.  An Option is a
\* sequence of at most one element.
Opt(i, r, F(_, _)) ==
    CASE r.k = "Incomplete" -> Incomplete
      [] r.k = "Error"      -> F(<<>>, i)
      [] OTHER              -> F(<<r.o>>, r.i)

Record(k, v, o) == [key |-> k, val |-> v, exp |-> o]

\* the switch! of record over the value type, and the Record built
record_value(o, t, kr) ==
    Then(encoded_value(t, kr.i), LAMBDA vr :
         Done(Record(kr.o, [vt |-> variant_of(t), e |-> vr.o], o), vr.i))

record(i) ==
    Opt(i, Alt(expiry_time_msec(i), expiry_time_sec(i)), LAMBDA o, i1 :
    Then(value_type(i1), LAMBDA tr :
    Then(encoded_string(tr.i), LAMBDA kr :
         record_value(o, tr.o, kr))))

DatabaseNumber(n, num) == [enc |-> n, num |-> num]

database_number(i) ==
    Then(tag(i, 254), LAMBDA tr :
    Then(encoded_length(tr.i), LAMBDA nr :
         Done(DatabaseNumber(nr.o, u32_from(nr.o)), nr.i)))

end_of_rdb(i) == tag(i, 255)

checksum(i) == take(i, 8)

\* eof
eof(i) == IF Len(i) = 0 THEN Done(i, i) ELSE Error

\* "REDIS"
Magic == <<82, 69, 68, 73, 83>>

\* tag!("REDIS"): the bytes present are compared first, then the length
tag_magic(i) ==
    LET m == IF Len(i) < Len(Magic) THEN Len(i) ELSE Len(Magic)
    IN  IF Take(i, m) # Take(Magic, m) THEN Error
        ELSE IF m < Len(Magic) THEN Incomplete
        ELSE Done(Magic, Drop(i, m))

rdb_version(i) == Then(tag_magic(i), LAMBDA tr : take(tr.i, 4))

\* one round of many0!: an Error ends the repetition with what was collected
\* and Incomplete is passed on
Many0Step(i, res, r, F(_)) ==
    CASE r.k = "Error"      -> Done(res, i)
      [] r.k = "Incomplete" -> Incomplete
      [] OTHER              -> F(r)

\* many0!(record); record always consumes input when it is Done
RECURSIVE many0_record(_, _)
many0_record(i, res) ==
    IF Len(i) = 0 THEN Done(res, i)
    ELSE Many0Step(i, res, record(i), LAMBDA r : many0_record(r.i, Append(res, r.o)))

Database(n, r) == [num |-> n, records |-> r]

database(i) ==
    Then(database_number(i), LAMBDA nr :
    Then(many0_record(nr.i, <<>>), LAMBDA rr :
         Done(Database(nr.o, rr.o), rr.i)))

RECURSIVE many0_database(_, _)
many0_database(i, res) ==
    IF Len(i) = 0 THEN Done(res, i)
    ELSE Many0Step(i, res, database(i), LAMBDA r : many0_database(r.i, Append(res, r.o)))

RDB(v, d, c) == [version |-> v, dbs |-> d, checksum |-> c]

\* chain!(v: rdb_version ~ d: many0!(database) ~ end_of_rdb ~ c: checksum? ~ eof)
\* checksum is take!(8), which never answers Error: a file that ends less
\* than 8 bytes after 0xFF is Incomplete
rdb(i) ==
    Then(rdb_version(i), LAMBDA vr :
    Then(many0_database(vr.i, <<>>), LAMBDA dr :
    Then(end_of_rdb(dr.i), LAMBDA er :
    Opt(er.i, checksum(er.i), LAMBDA c, i1 :
    Then(eof(i1), LAMBDA r :
         Done(RDB(vr.o, dr.o, c), r.i))))))

(****************************** RDBSer *************************************)
(* ser writes into a writer and returns the number of bytes written; here  *)
(* it is the sequence of bytes written, whose length is that number.       *)

EncodedLength_ser(l) == l.s

EncodedString_ser(e) ==
    IF e.t = "Lzf"
    THEN EncodedLength_ser(e.s) \o EncodedLength_ser(e.c) \o EncodedLength_ser(e.u) \o e.v
    ELSE EncodedLength_ser(e.s) \o e.v

RECURSIVE strings_ser(_)
strings_ser(v) ==
    IF v = <<>> THEN <<>> ELSE EncodedString_ser(Head(v)) \o strings_ser(Tail(v))

\* EncodedList and EncodedSet
EncodedSequence_ser(x) == EncodedLength_ser(x.s) \o strings_ser(x.v)

RECURSIVE tuples_ser(_)
tuples_ser(v) ==
    IF v = <<>> THEN <<>>
    ELSE EncodedString_ser(Head(v)[1]) \o <<Head(v)[2]>> \o Head(v)[3] \o tuples_ser(Tail(v))

EncodedSortedset_ser(x) == EncodedLength_ser(x.s) \o tuples_ser(x.v)

RECURSIVE pairs_ser(_)
pairs_ser(v) ==
    IF v = <<>> THEN <<>>
    ELSE EncodedString_ser(Head(v)[1]) \o EncodedString_ser(Head(v)[2]) \o pairs_ser(Tail(v))

EncodedHashmap_ser(x) == EncodedLength_ser(x.s) \o pairs_ser(x.v)

ExpiryTime_ser(x) == IF x.t = "MilliSec" THEN <<252>> \o x.e ELSE <<253>> \o x.e

\* the value-type byte Record::ser writes for each variant
variant_bits(vt) ==
    CASE vt = "V0" -> VT_STRING
      [] vt = "V1" -> VT_LIST
      [] vt = "V2" -> VT_SET
      [] vt = "V3" -> VT_SORTEDSET
      [] vt = "V4" -> VT_HASHMAP
      [] vt = "VA" -> VT_ZIPLIST
      [] vt = "VB" -> VT_INTSET
      [] vt = "VC" -> VT_SORTEDSET_ZIPLIST
      [] vt = "VD" -> VT_HASHMAP_ZIPLIST

EncodedValue_ser(val) ==
    CASE val.vt \in {"V1", "V2"} -> EncodedSequence_ser(val.e)
      [] val.vt = "V3"           -> EncodedSortedset_ser(val.e)
      [] val.vt = "V4"           -> EncodedHashmap_ser(val.e)
      [] OTHER                   -> EncodedString_ser(val.e)

Record_ser(r) ==
    (IF r.exp = <<>> THEN <<>> ELSE ExpiryTime_ser(r.exp[1]))
        \o <<variant_bits(r.val.vt)>>
        \o EncodedString_ser(r.key)
        \o EncodedValue_ser(r.val)

\* DatabaseNumber::ser without the 0xFE marker
DatabaseNumber_ser_no_marker(d) == EncodedLength_ser(d.enc)

DatabaseNumber_ser(d) == <<254>> \o EncodedLength_ser(d.enc)

RECURSIVE records_ser(_)
records_ser(rs) ==
    IF rs = <<>> THEN <<>> ELSE Record_ser(Head(rs)) \o records_ser(Tail(rs))

Database_ser(d) == DatabaseNumber_ser(d.num) \o records_ser(d.records)

RDBVersion_ser(v) == Magic \o v

Checksum_ser(c) == c

RECURSIVE databases_ser(_)
databases_ser(ds) ==
    IF ds = <<>> THEN <<>> ELSE Database_ser(Head(ds)) \o databases_ser(Tail(ds))

RDB_ser(x) ==
    RDBVersion_ser(x.version) \o databases_ser(x.dbs) \o <<255>>
        \o (IF x.checksum = <<>> THEN <<>> ELSE Checksum_ser(x.checksum[1]))

(*************************** String::decode ********************************)
(* A decoded String is the sequence of its characters' code points.  The   *)
(* outcome is Ok(s), Err (the io::Error of assert_result!) or a panic.     *)

Ok(s) == [k |-> "Ok", s |-> s]

Err == [k |-> "Err"]

Panic == [k |-> "Panic"]

\* U+FFFD REPLACEMENT CHARACTER
Replacement == 65533

\* String::from_utf8_lossy: ASCII is kept, a well-formed two-byte sequence is
\* its code point, and a byte that starts no well-formed sequence becomes
\* U+FFFD.  (Exact for slices without the lead bytes 0xE0..0xF4 of three- and
\* four-byte sequences, which the keys of this model never contain.)
RECURSIVE from_utf8_lossy(_)
from_utf8_lossy(v) ==
    IF v = <<>> THEN <<>>
    ELSE IF v[1] < 128 THEN <<v[1]>> \o from_utf8_lossy(Tail(v))
    ELSE IF v[1] >= 194 /\ v[1] <= 223 /\ Len(v) >= 2 /\ v[2] >= 128 /\ v[2] <= 191
         THEN <<(v[1] - 192) * 64 + (v[2] - 128)>> \o from_utf8_lossy(Drop(v, 2))
    ELSE <<Replacement>> \o from_utf8_lossy(Tail(v))

\* a << 8 | (j as i32) on i32: the shift drops the top byte, the result is
\* read as a two's-complement 32-bit integer
shl8_or(a, j) ==
    LET low == a % 16777216
    IN  IF low >= 8388608 THEN (low - 16777216) * 256 + j ELSE low * 256 + j

\* v.iter().fold(0, |a, j| a << 8 | (*j as i32))
RECURSIVE fold_i32(_, _)
fold_i32(a, v) == IF v = <<>> THEN a ELSE fold_i32(shl8_or(a, Head(v)), Tail(v))

\* the decimal digits of n >= 0, as characters
RECURSIVE digits(_)
digits(n) == IF n < 10 THEN <<48 + n>> ELSE digits(n \div 10) \o <<48 + (n % 10)>>

\* i32::to_string
i32_to_string(n) ==
    IF n >= 0 THEN digits(n)
    ELSE LET last == (10 - (n % 10)) % 10
             rest == (0 - (n + last)) \div 10
         IN  <<45>> \o (IF rest = 0 THEN <<>> ELSE digits(rest)) \o <<48 + last>>

\* the builds of the crate: with overflow checks (debug) and without (release)
Builds == {"debug", "release"}

\* a copy of the referenced bytes in one block, as far as they exist
backref_copy_block(out, j, n) ==
    out \o SubSeq(out, j + 1, IF j + n <= Len(out) THEN j + n ELSE Len(out))

\* for j in backref_start..(backref_start + backref_len): out.push(out[j])
RECURSIVE backref_copy(_, _, _)
backref_copy(out, j, n) ==
    IF n = 0 THEN out ELSE backref_copy(Append(out, out[j + 1]), j + 1, n - 1)

(* The while loop of the Lzf arm.  o, the number of bytes produced, always *)
(* equals Len(out).  back is what the code subtracts from o.  When         *)
(* back > o the usize subtraction underflows: with overflow checks it      *)
(* panics; without, backref_start wraps to 2^64 - (back - o), and then     *)
(* either backref_start + backref_len wraps too (backref_len >= back - o), *)
(* the range is empty and nothing is copied, or out[j] panics on its       *)
(* bounds check.                                                           *)
RECURSIVE lzf_loop(_, _, _, _)
lzf_loop(l, i, out, build) ==
    IF ~(i < Len(l)) THEN Ok(from_utf8_lossy(out))
    ELSE LET ctrl == l[i + 1]
             i1   == i + 1
         IN  IF ctrl < 32
             THEN LET literal_len == ctrl + 1
                      literal_end == i1 + literal_len
                  IN  IF ~(literal_end <= Len(l)) THEN Err
                      ELSE lzf_loop(l, i1 + literal_len,
                                    out \o SubSeq(l, i1 + 1, literal_end), build)
             ELSE LET ext  == (ctrl \div 32) = 7
                      i2   == IF ext THEN i1 + 1 ELSE i1
                  IN  IF ext /\ ~(i1 < Len(l)) THEN Err
                      ELSE IF ~(i2 < Len(l)) THEN Err
                      ELSE LET backref_len == IF ext THEN 7 + l[i1 + 1] + 2 ELSE ctrl \div 32
                               back == (ctrl % 32) * 256 + l[i2 + 1] + 1
                               o    == Len(out)
                           IN  IF back <= o
                               THEN lzf_loop(l, i2 + 1,
                                             backref_copy(out, o - back, backref_len), build)
                               ELSE IF build = "debug" THEN Panic
                               ELSE IF backref_len >= back - o
                                    THEN lzf_loop(l, i2 + 1, out, build)
                                    ELSE Panic

\* impl RDBDec<EncodedString> for String
String_decode(dat, build) ==
    CASE dat.t = "Raw" -> Ok(from_utf8_lossy(dat.v))
      [] dat.t = "Int" -> Ok(i32_to_string(fold_i32(0, dat.v)))
      [] dat.t = "Lzf" -> lzf_loop(dat.v, 0, <<>>, build)

(***************************** PartRDB *************************************)
(* The file system is a function from the paths of the files that exist to *)
(* their contents.  A File handle is the path it was opened on: a handle   *)
(* made by File::create starts at offset 0 of an empty file and is the     *)
(* only writer of its file, so a write through it appends.  Reads and      *)
(* writes of the file system itself are taken to succeed.                  *)

Put(f, key, v) == [x \in DOMAIN f \cup {key} |-> IF x = key THEN v ELSE f[x]]

EmptyMap == [x \in {} |-> {}]

\* impl From<EncodedString> for EncodedStringVec: the variant and the payload
EncodedStringVec_from(e) == [t |-> e.t, v |-> e.v]

\* the eight hexadecimal digits of {:08x}, most significant first
RECURSIVE hex(_, _)
hex(n, width) == IF width = 0 THEN <<>> ELSE hex(n \div 16, width - 1) \o <<n % 16>>

part_rdb_path(self, db_num) == <<self.output_dir, <<"PART_">> \o hex(db_num, 8) \o <<".rdb">>>>

merge_rdb_path(self) == <<self.output_dir, <<"MERGE.rdb">>>>

\* "0006"
MERGE_RDB_VERSION == <<48, 48, 48, 54>>

\* Err(Error::new(ErrorKind::NotFound, ""))
NotFound == [err |-> "NotFound"]

\* PartRDB::new without the test of the directory
PartRDB_new_unchecked(check_duplication, output_dir, is_dir) ==
    [check_duplication |-> check_duplication,
     output_dir        |-> output_dir,
     files             |-> [x \in {} |-> {}],
     keys              |-> [x \in {} |-> {}]]

\* PartRDB::new; is_dir is what Path::new(&output_dir).is_dir() answers
PartRDB_new(check_duplication, output_dir, is_dir) ==
    IF is_dir
    THEN [check_duplication |-> check_duplication,
          output_dir        |-> output_dir,
          files             |-> EmptyMap,
          keys              |-> EmptyMap]
    ELSE NotFound

\* a write that starts the file over
file_write_over(disk, handle, bytes) == [disk EXCEPT ![handle] = bytes]

\* Write::write through a handle
file_write(disk, handle, bytes) == [disk EXCEPT ![handle] = @ \o bytes]

\* accepts without the test of check_duplication
accepts_unseen(check_duplication, kset, key) == key \notin kset

\* line 115: the record is serialized unless its key is a known duplicate
accepts(check_duplication, kset, key) == ~check_duplication \/ key \notin kset

(* PartRDB::write.  Answers the store and the file system after the call.  *)
(* File::create makes the file or truncates the one that exists.           *)
PartRDB_write(self, disk, db_num, rec) ==
    LET num    == db_num.num
        create == num \notin DOMAIN self.files
        path   == part_rdb_path(self, num)
        files1 == IF create THEN Put(self.files, num, path) ELSE self.files
        disk1  == IF create
                  THEN file_write(Put(disk, path, <<>>), path, DatabaseNumber_ser(db_num))
                  ELSE disk
        keys1  == IF num \notin DOMAIN self.keys THEN Put(self.keys, num, {}) ELSE self.keys
        key    == EncodedStringVec_from(rec.key)
        take_  == accepts(self.check_duplication, keys1[num], key)
    IN  [self   |-> [self EXCEPT !.files = files1,
                                 !.keys  = IF take_
                                           THEN [keys1 EXCEPT ![num] = @ \cup {key}]
                                           ELSE keys1],
         disk   |-> IF take_ THEN file_write(disk1, files1[num], Record_ser(rec)) ELSE disk1,
         result |-> "Ok"]

\* PartRDB::close_part_files
PartRDB_close_part_files(self) == [self EXCEPT !.files = EmptyMap]

\* the orders in which a HashMap can iterate over the keys in ks
Orders(ks) ==
    {f \in [1..Cardinality(ks) -> ks] : \A a, b \in 1..Cardinality(ks) : f[a] = f[b] => a = b}

\* mfile.write(bytes): the bytes go to the end of MERGE.rdb and their number
\* is added to n
merge_write(m, bytes) == [out |-> m.out \o bytes, n |-> m.n + Len(bytes)]

\* the loop of merge over self.keys.keys(), in the order given: each
\* intermediate is opened, mapped and written to MERGE.rdb whole
RECURSIVE copy_parts(_, _, _, _, _)
copy_parts(self, disk, order, j, m) ==
    IF j > Len(order) THEN m
    ELSE copy_parts(self, disk, order, j + 1,
                    merge_write(m, disk[part_rdb_path(self, order[j])]))

\* merge without the eight bytes that stand for the checksum
merge_run_no_checksum(self, disk, order) ==
    merge_write(copy_parts(self, disk, order, 1,
                           merge_write([out |-> <<>>, n |-> 0],
                                       RDBVersion_ser(MERGE_RDB_VERSION))),
                <<255>>)

(* PartRDB::merge: the contents of MERGE.rdb and the number n returned.    *)
merge_run(self, disk, order) ==
    LET m0 == merge_write([out |-> <<>>, n |-> 0], RDBVersion_ser(MERGE_RDB_VERSION))
        m1 == copy_parts(self, disk, order, 1, m0)
        m2 == merge_write(m1, <<255>>)
    IN  merge_write(m2, <<0, 0, 0, 0, 0, 0, 0, 0>>)

PartRDB_merge(self, disk, order) ==
    LET m == merge_run(self, disk, order)
    IN  [disk |-> Put(disk, merge_rdb_path(self), m.out), n |-> m.n]

(******************************* inputs ************************************)

\* STRING record, raw key "K", value "a"
RecKa == <<0, 1, 75, 1, 97>>

\* LIST record with an expiry in seconds, raw key "K", one element "b"
RecKb == <<253, 0, 0, 0, 1, 1, 1, 75, 1, 1, 98>>

\* STRING record whose key is the LZF string of the literal "K"
RecLzfK == <<0, 195, 2, 1, 0, 75, 1, 99>>

\* STRING record whose key is an LZF string with a literal run of two bytes
\* of which only one is there
RecLzfBad == <<0, 195, 2, 1, 1, 75, 1, 100>>

RecordBytes == {RecKa, RecKb, RecLzfK, RecLzfBad}

\* the records the parser hands to main
Records == {record(b).o : b \in RecordBytes}

\* database 0, database 1, and database 1 with its number on 14 bits
DbHeaderBytes == {<<254, 0>>, <<254, 1>>, <<254, 64, 1>>}

DbNumbers == {database_number(b).o : b \in DbHeaderBytes}

\* the values of -d: none, or database 1 alone
TargetSets == {{}, {1}}

\* files rdb does not accept: no magic, a record cut short, no end marker
MalformedInputs ==
    {<<82, 69, 68, 73, 88, 48, 48, 48, 54, 255, 0, 0, 0, 0, 0, 0, 0, 0>>,
     <<82, 69, 68, 73, 83, 48, 48, 48, 54, 254, 0, 0, 1, 75>>,
     <<82, 69, 68, 73, 83, 48, 48, 48, 54, 254, 0, 0, 1, 75, 1, 97>>}

MaxFiles == 2

MaxWrites == 2

OutputDir == "out"

(******************************** main *************************************)
(* main parses each argument whole and then walks its databases and their  *)
(* records.  Here the databases and records of an accepted file are drawn  *)
(* as the loops reach them: each is the parse of a byte string, as rdb     *)
(* would hand it over.                                                     *)

VARIABLES
    pc,                 \* where main is
    check_duplication,  \* !matches.opt_present("C")
    target_db,          \* database_set(matches.opt_strs("d"))
    dir_exists,         \* whether the output directory is a directory
    disk,               \* the files under the output directory
    srdb,               \* what PartRDB::new answered, NoStore before
    cur,                \* the DatabaseNumber of the database being exported
    nfiles,             \* the input files opened so far
    ret,                \* what merge returned
    history,            \* the calls of write so far, in order: the database
                        \* number, the record, the input file it came from,
                        \* what write answered, whether a file changed
    skipped,            \* the database numbers main left out
    codec               \* a parse and its serialization (SpecCodec)

vars ==
    <<pc, check_duplication, target_db, dir_exists, disk, srdb, cur, nfiles, ret,
      history, skipped, codec>>

NoStore == [none |-> TRUE]

NoDb == [none |-> TRUE]

NoFiles == [x \in {} |-> <<>>]

NoCodec == [step |-> "none"]

Init ==
    /\ pc = "start"
    /\ check_duplication \in BOOLEAN
    /\ target_db \in TargetSets
    /\ dir_exists \in BOOLEAN
    /\ disk = NoFiles
    /\ srdb = NoStore
    /\ cur = NoDb
    /\ nfiles = 0
    /\ ret = -1
    /\ history = <<>>
    /\ skipped = {}
    /\ codec = NoCodec

\* PartRDB::new(check_duplication, output_dir).unwrap()
New ==
    /\ pc = "start"
    /\ srdb' = PartRDB_new(check_duplication, OutputDir, dir_exists)
    /\ pc' = IF srdb' = NotFound THEN "abort" ELSE "loop"
    /\ UNCHANGED <<check_duplication, target_db, dir_exists, disk, cur, nfiles, ret,
                   history, skipped, codec>>

\* the next argument is opened, mapped and parsed, and rdb accepts it
ReadInput ==
    /\ pc = "loop"
    /\ nfiles < MaxFiles
    /\ nfiles' = nfiles + 1
    /\ pc' = "file"
    /\ UNCHANGED <<check_duplication, target_db, dir_exists, disk, srdb, cur, ret,
                   history, skipped, codec>>

\* the next argument is a file rdb does not accept: panic!("parse error")
ParseError ==
    /\ pc = "loop"
    /\ nfiles < MaxFiles
    /\ \E b \in MalformedInputs : ~IsDone(rdb(b))
    /\ nfiles' = nfiles + 1
    /\ pc' = "abort"
    /\ UNCHANGED <<check_duplication, target_db, dir_exists, disk, srdb, cur, ret,
                   history, skipped, codec>>

\* a filter that lets every database through
selected_all(target, num) == TRUE

\* target_db.is_empty() || target_db.contains(&num)
selected(target, num) == target = {} \/ num \in target

\* for db in dbs: the next database of the file; its records are iterated
\* only when its number is selected
NextDatabase ==
    /\ pc = "file"
    /\ \E db_num \in DbNumbers :
          IF selected(target_db, db_num.num)
          THEN /\ pc' = "db"
               /\ cur' = db_num
               /\ skipped' = skipped
          ELSE /\ pc' = "file"
               /\ cur' = cur
               /\ skipped' = skipped \cup {db_num.num}
    /\ UNCHANGED <<check_duplication, target_db, dir_exists, disk, srdb, nfiles, ret,
                   history, codec>>

\* srdb.write(db_num, &record).unwrap() for the next record of the database
WriteRecord ==
    /\ pc = "db"
    /\ Len(history) < MaxWrites
    /\ \E rec \in Records :
          LET w == PartRDB_write(srdb, disk, cur, rec)
          IN  /\ srdb' = w.self
              /\ disk' = w.disk
              /\ history' = Append(history, [num |-> cur.num, rec |-> rec, file |-> nfiles,
                                             result |-> w.result,
                                             changed |-> w.disk # disk])
              /\ pc' = IF w.result = "Ok" THEN "db" ELSE "abort"
    /\ UNCHANGED <<check_duplication, target_db, dir_exists, cur, nfiles, ret, skipped,
                   codec>>

\* the records of the database are exhausted
EndDatabase ==
    /\ pc = "db"
    /\ pc' = "file"
    /\ cur' = NoDb
    /\ UNCHANGED <<check_duplication, target_db, dir_exists, disk, srdb, nfiles, ret,
                   history, skipped, codec>>

\* the databases of the file are exhausted
FinishInput ==
    /\ pc = "file"
    /\ pc' = "loop"
    /\ UNCHANGED <<check_duplication, target_db, dir_exists, disk, srdb, cur, nfiles, ret,
                   history, skipped, codec>>

\* srdb.close_part_files(), after the last argument
ClosePartFiles ==
    /\ pc = "loop"
    /\ srdb' = PartRDB_close_part_files(srdb)
    /\ pc' = "closed"
    /\ UNCHANGED <<check_duplication, target_db, dir_exists, disk, cur, nfiles, ret,
                   history, skipped, codec>>

\* srdb.merge().unwrap()
Merge ==
    /\ pc = "closed"
    /\ \E order \in Orders(DOMAIN srdb.keys) :
          LET m == PartRDB_merge(srdb, disk, order)
          IN  /\ disk' = m.disk
              /\ ret' = m.n
    /\ pc' = "done"
    /\ UNCHANGED <<check_duplication, target_db, dir_exists, srdb, cur, nfiles, history,
                   skipped, codec>>

Next ==
    \/ New
    \/ ReadInput
    \/ ParseError
    \/ NextDatabase
    \/ WriteRecord
    \/ EndDatabase
    \/ FinishInput
    \/ ClosePartFiles
    \/ Merge

Spec == Init /\ [][Next]_vars

(************************ the codec on its own *****************************)

\* SET record with an expiry in milliseconds
RecSet == <<252, 0, 0, 0, 0, 0, 0, 0, 255, 2, 1, 49, 2, 1, 49, 1, 50>>

\* SORTEDSET record: one member with a two-byte score
RecSortedset == <<3, 1, 90, 1, 1, 49, 2, 7, 7>>

\* HASHMAP record: one pair
RecHashmap == <<4, 1, 72, 1, 1, 102, 1, 118>>

\* ZIPLIST record with a one-byte integer key
RecZiplist == <<10, 192, 1, 2, 9, 9>>

\* INTSET record with a two-byte integer key
RecIntset == <<11, 193, 0, 1, 1, 5>>

\* SORTEDSET_ZIPLIST record with an empty payload
RecSortedsetZiplist == <<12, 1, 67, 0>>

\* HASHMAP_ZIPLIST record whose key has its length on 14 bits
RecHashmapZiplist == <<13, 64, 1, 68, 1, 1>>

\* records whose value-type byte is none of the nine: 0x10, 0x1a, 0x09
RecTag10 == <<16, 1, 74, 1, 101>>

RecTag1a == <<26, 1, 74, 1, 101>>

RecTag09 == <<9, 1, 74, 1, 101>>

CodecRecordBytes ==
    RecordBytes \cup
    {RecSet, RecSortedset, RecHashmap, RecZiplist, RecIntset, RecSortedsetZiplist,
     RecHashmapZiplist, RecTag10, RecTag1a, RecTag09}

CodecMaxRecords == 2

RECURSIVE concat(_)
concat(ss) == IF ss = <<>> THEN <<>> ELSE Head(ss) \o concat(Tail(ss))

\* "REDIS0006", one database of at most CodecMaxRecords records, 0xFF and a
\* checksum; and the files of MalformedInputs
RdbInputs ==
    MalformedInputs \cup
    {Magic \o MERGE_RDB_VERSION \o h \o concat(rs) \o <<255>> \o <<1, 2, 3, 4, 5, 6, 7, 8>> :
        h \in DbHeaderBytes,
        rs \in UNION {[1..n -> CodecRecordBytes] : n \in 0..CodecMaxRecords}}

InitCodec ==
    /\ pc = "codec"
    /\ check_duplication = TRUE
    /\ target_db = {}
    /\ dir_exists = TRUE
    /\ disk = NoFiles
    /\ srdb = NoStore
    /\ cur = NoDb
    /\ nfiles = 0
    /\ ret = -1
    /\ history = <<>>
    /\ skipped = {}
    /\ \E b \in RdbInputs : codec = [step |-> "input", input |-> b]

main_vars ==
    <<pc, check_duplication, target_db, dir_exists, disk, srdb, cur, nfiles, ret,
      history, skipped>>

\* rdb(s)
CodecParse ==
    /\ codec.step = "input"
    /\ codec' = [step |-> "parsed", input |-> codec.input, parsed |-> rdb(codec.input)]
    /\ UNCHANGED main_vars

\* rdb.ser(&mut v) on the tree of a file rdb accepted
CodecSer ==
    /\ codec.step = "parsed"
    /\ IsDone(codec.parsed)
    /\ codec' = [step |-> "ser", input |-> codec.input, parsed |-> codec.parsed,
                 output |-> RDB_ser(codec.parsed.o)]
    /\ UNCHANGED main_vars

NextCodec ==
    \/ CodecParse
    \/ CodecSer

SpecCodec == InitCodec /\ [][NextCodec]_vars

(*********************** the parsers on their own **************************)
(* One parser, or String::decode behind encoded_string as in               *)
(* decode_encoded_string_test, applied to one input.                       *)

\* first bytes of a length prefix: both ends of each of its four forms, and
\* the special variants next to 3
LengthFirstBytes == {0, 63, 64, 127, 128, 191, 192, 193, 194, 195, 196, 255}

\* the bytes that follow
LengthOtherBytes == {0, 64, 127, 255}

MaxLengthInput == 5

\* byte strings of at most n bytes of bs
SeqsUpTo(bs, n) == UNION {[1..m -> bs] : m \in 0..n}

\* a 32-bit length is kept below 2^31, where the integers of the checker end
LengthInputs ==
    {<<>>} \cup
    {i \in {<<b>> \o r : b \in LengthFirstBytes,
                         r \in SeqsUpTo(LengthOtherBytes, MaxLengthInput - 1)} :
        (i[1] \div 64 = 2 /\ Len(i) >= 2) => i[2] < 128}

\* payload bytes: literal runs of 1 and 2 (0x00, 0x01), back-references of
\* length 1 and 2 (0x20, 0x40), one with a high offset (0x21), an extended
\* one (0xe0), and 'a'
LzfBytes == {0, 1, 32, 33, 64, 97, 224}

MaxLzfPayload == 4

\* case_1 of decode_encoded_string_test
LzfTestVector == <<195, 14, 33, 1, 97, 97, 224, 5, 0, 0, 49, 224, 5, 14, 1, 97, 97>>

\* LZF strings: 0xc3, the two lengths, the payload
DecodeInputs ==
    {LzfTestVector} \cup
    {<<195, Len(p), Len(p)>> \o p : p \in SeqsUpTo(LzfBytes, MaxLzfPayload)}

\* what follows the value-type byte: the key "J" and a value in each of the
\* shapes of the nine encodings (a string; a list or set of one string; a
\* sorted set of one member; a hashmap of one pair)
ValueBodies ==
    {<<1, 101>>, <<1, 1, 101>>, <<1, 1, 101, 1, 7>>, <<1, 1, 101, 1, 102>>}

\* records with every byte in the place of the value type
TagInputs == {<<b>> \o <<1, 74>> \o v : b \in 0..255, v \in ValueBodies}

\* first bytes of a string: Integer lengths on 6 and 14 bits, the special
\* variants 0..3 and two variants that are no string (4 and 63)
StringFirstBytes == {0, 1, 2, 64, 192, 193, 194, 195, 196, 255}

\* the bytes that follow: small lengths, '0', and a special length
StringOtherBytes == {0, 1, 2, 48, 192}

MaxStringInput == 5

StringInputs ==
    {<<b>> \o r : b \in StringFirstBytes,
                  r \in SeqsUpTo(StringOtherBytes, MaxStringInput - 1)}

InitParsers ==
    /\ pc = "parsers"
    /\ check_duplication = TRUE
    /\ target_db = {}
    /\ dir_exists = TRUE
    /\ disk = NoFiles
    /\ srdb = NoStore
    /\ cur = NoDb
    /\ nfiles = 0
    /\ ret = -1
    /\ history = <<>>
    /\ skipped = {}
    /\ \/ \E b \in LengthInputs :
             codec = [step |-> "input", fn |-> "encoded_length", input |-> b]
       \/ \E b \in DecodeInputs :
             codec = [step |-> "input", fn |-> "decode", input |-> b]
       \/ \E b \in TagInputs :
             codec = [step |-> "input", fn |-> "record", input |-> b]
       \/ \E b \in StringInputs :
             codec = [step |-> "input", fn |-> "encoded_string", input |-> b]

\* encoded_length(&input)
ApplyEncodedLength ==
    /\ codec.step = "input"
    /\ codec.fn = "encoded_length"
    /\ codec' = [step |-> "output", fn |-> codec.fn, input |-> codec.input,
                 output |-> encoded_length(codec.input)]
    /\ UNCHANGED main_vars

\* match encoded_string(&input) { Done(_, e) => String::decode(&e) }, in
\* either build of the crate
ApplyDecode ==
    /\ codec.step = "input"
    /\ codec.fn = "decode"
    /\ IsDone(encoded_string(codec.input))
    /\ \E build \in Builds :
          codec' = [step |-> "output", fn |-> codec.fn, input |-> codec.input,
                    build |-> build,
                    e |-> encoded_string(codec.input).o,
                    output |-> String_decode(encoded_string(codec.input).o, build)]
    /\ UNCHANGED main_vars

\* record(&input)
ApplyRecord ==
    /\ codec.step = "input"
    /\ codec.fn = "record"
    /\ codec' = [step |-> "output", fn |-> codec.fn, input |-> codec.input,
                 output |-> record(codec.input)]
    /\ UNCHANGED main_vars

\* encoded_string(&input)
ApplyEncodedString ==
    /\ codec.step = "input"
    /\ codec.fn = "encoded_string"
    /\ codec' = [step |-> "output", fn |-> codec.fn, input |-> codec.input,
                 output |-> encoded_string(codec.input)]
    /\ UNCHANGED main_vars

NextParsers ==
    \/ ApplyEncodedLength
    \/ ApplyDecode
    \/ ApplyRecord
    \/ ApplyEncodedString

SpecParsers == InitParsers /\ [][NextParsers]_vars

(************************ the store on its own *****************************)
(* PartRDB is a public type: a caller may call write and close_part_files  *)
(* in any order on a store that PartRDB::new answered.                     *)

MaxStoreWrites == 3

InitStore ==
    /\ pc = "store"
    /\ check_duplication \in BOOLEAN
    /\ target_db = {}
    /\ dir_exists = TRUE
    /\ disk = NoFiles
    /\ srdb = PartRDB_new(check_duplication, OutputDir, dir_exists)
    /\ cur = NoDb
    /\ nfiles = 0
    /\ ret = -1
    /\ history = <<>>
    /\ skipped = {}
    /\ codec = NoCodec

\* srdb.write(db_num, &record); the call is noted with whether the record
\* was serialized (line 115)
StoreWrite ==
    /\ pc = "store"
    /\ Len(history) < MaxStoreWrites
    /\ \E d \in DbNumbers, rec \in Records :
          LET w == PartRDB_write(srdb, disk, d, rec)
          IN  /\ srdb' = w.self
              /\ disk' = w.disk
              /\ history' = Append(history,
                                   [num |-> d.num, rec |-> rec, file |-> 0,
                                    result |-> w.result,
                                    changed |-> w.disk # disk,
                                    accepted |-> (~check_duplication
                                                   \/ d.num \notin DOMAIN srdb.keys
                                                   \/ w.self.keys[d.num] # srdb.keys[d.num])])
    /\ UNCHANGED <<pc, check_duplication, target_db, dir_exists, cur, nfiles, ret, skipped,
                   codec>>

\* srdb.close_part_files()
StoreClose ==
    /\ pc = "store"
    /\ srdb' = PartRDB_close_part_files(srdb)
    /\ UNCHANGED <<pc, check_duplication, target_db, dir_exists, disk, cur, nfiles, ret,
                   history, skipped, codec>>

NextStore ==
    \/ StoreWrite
    \/ StoreClose

SpecStore == InitStore /\ [][NextStore]_vars

(******************************* claims ************************************)

HasStore == srdb # NoStore /\ srdb # NotFound

\* the intermediate file of a database and what the parser reads in it
Part(num) == disk[part_rdb_path(srdb, num)]

\* p, the parse of an intermediate, is one whole database with this number
WellFormed(p, num) == IsDone(p) /\ p.i = <<>> /\ p.o.num.num = num

PartRecords(num) == database(Part(num)).o.records

\* the calls of write for a database, in call order
Written(num) == SelectSeq(history, LAMBDA h : h.num = num)

RecsOf(ws) == [j \in 1..Len(ws) |-> ws[j].rec]

\* the key of a record as the store keeps it: the variant of the encoded
\* string and its payload
KeyOf(rec) == EncodedStringVec_from(rec.key)

\* the first call in ws with the key of ws[w]
FirstWith(ws, w) ==
    CHOOSE a \in 1..w :
        /\ KeyOf(ws[a].rec) = KeyOf(ws[w].rec)
        /\ \A b \in 1..(a - 1) : KeyOf(ws[b].rec) # KeyOf(ws[w].rec)

\* rs holds one record for each key written in ws, the earliest written with
\* that key, and nothing else
KeepsEarliest(rs, ws) ==
    /\ \A j \in 1..Len(rs) : \E w \in 1..Len(ws) : ws[w].rec = rs[j]
    /\ \A w \in 1..Len(ws) :
          /\ Cardinality({j \in 1..Len(rs) : KeyOf(rs[j]) = KeyOf(ws[w].rec)}) = 1
          /\ \E j \in 1..Len(rs) : rs[j] = ws[FirstWith(ws, w)].rec

Merged == disk[merge_rdb_path(srdb)]

NumbersOf(dbs) == [j \in 1..Len(dbs) |-> dbs[j].num.num]

\* the store's own notion of a key (the variant of the encoded string and its
\* payload) is deduplicated as write's seen-set says: each intermediate, and
\* each database of MERGE.rdb, holds one record for each stored key, the
\* earliest written, and a later write of a stored key changes no file.
StoredKeyKeepsEarliest ==
    (check_duplication /\ HasStore) =>
        /\ \A num \in DOMAIN srdb.keys :
              LET p == database(Part(num))
              IN  WellFormed(p, num) /\ KeepsEarliest(p.o.records, Written(num))
        /\ \A w \in 1..Len(history) :
              (\E a \in 1..(w - 1) :
                    /\ history[a].num = history[w].num
                    /\ KeyOf(history[a].rec) = KeyOf(history[w].rec))
                 => ~history[w].changed
        /\ pc = "done" =>
              LET r == rdb(Merged)
              IN  /\ IsDone(r)
                  /\ \A j \in 1..Len(r.o.dbs) :
                        KeepsEarliest(r.o.dbs[j].records, Written(r.o.dbs[j].num.num))

\* the string a key decodes to, in a build
DecodedKey(rec, build) == String_decode(rec.key, build)

\* rs holds one record for each decodable key written in ws, the earliest
\* written with a key decoding to that string
OnePerDecodedKey(rs, ws, build) ==
    \A w \in 1..Len(ws) :
        LET k == DecodedKey(ws[w].rec, build)
            first == CHOOSE a \in 1..w :
                        /\ DecodedKey(ws[a].rec, build) = k
                        /\ \A b \in 1..(a - 1) : DecodedKey(ws[b].rec, build) # k
        IN  k.k = "Ok" =>
                /\ Cardinality({j \in 1..Len(rs) : DecodedKey(rs[j], build) = k}) = 1
                /\ \E j \in 1..Len(rs) : rs[j] = ws[first].rec

\* C1: with duplicate-checking enabled, each database's intermediate file
\* holds exactly one record for each key written to that database number,
\* the earliest record written with that key, a key being the string the
\* encoded key stands for.
C1_OneRecordPerKey ==
    (check_duplication /\ HasStore) =>
        \A num \in DOMAIN srdb.keys : \A build \in Builds :
            LET p == database(Part(num))
            IN  WellFormed(p, num) /\ OnePerDecodedKey(p.o.records, Written(num), build)

\* C2: the records of a database's intermediate file are the records of the
\* write calls that changed it, in the order of the calls (input files in
\* command-line order, records in file order).
C2_CallOrder ==
    HasStore =>
        /\ \A num \in DOMAIN srdb.keys :
              LET p == database(Part(num))
              IN  /\ WellFormed(p, num)
                  /\ p.o.records = RecsOf(SelectSeq(Written(num), LAMBDA h : h.changed))
        /\ \A a, b \in 1..Len(history) : a < b => history[a].file <= history[b].file

\* C2 witness: a database got a record from the first input file and then a
\* different one from the second, and the intermediate holds them in that
\* order.
C2_Witness ==
    /\ HasStore
    /\ Len(history) = 2
    /\ history[1].num = history[2].num
    /\ history[1].file = 1
    /\ history[2].file = 2
    /\ history[1].rec # history[2].rec
    /\ PartRecords(history[1].num) = <<history[1].rec, history[2].rec>>

\* C3: with duplicate-checking disabled every write call answers Ok and
\* serializes its record: the intermediate of a database holds as many
\* records as write was called for it, the record of each call in its place,
\* duplicates of a key included.
C3_NoCheck ==
    (~check_duplication /\ HasStore) =>
        /\ \A w \in 1..Len(history) : history[w].result = "Ok" /\ history[w].changed
        /\ \A num \in DOMAIN srdb.keys :
              LET p == database(Part(num))
              IN  /\ WellFormed(p, num)
                  /\ Len(p.o.records) = Len(Written(num))
                  /\ p.o.records = RecsOf(Written(num))

\* C3 witness: without duplicate-checking the same record was written twice
\* to a database and the intermediate holds two records.
C3_Witness ==
    /\ ~check_duplication
    /\ HasStore
    /\ Len(history) = 2
    /\ history[1].num = history[2].num
    /\ history[1].rec = history[2].rec
    /\ Len(PartRecords(history[1].num)) = 2

RECURSIVE PartsInOrder(_, _)
PartsInOrder(order, j) ==
    IF j > Len(order) THEN <<>> ELSE Part(order[j]) \o PartsInOrder(order, j + 1)

\* C4: after the writes and close_part_files, merge leaves in MERGE.rdb the
\* 9 bytes "REDIS0006", then the whole intermediate of every known database
\* number in some order, then 0xFF, then 8 zero bytes, and returns the number
\* of these bytes.
C4_MergeLayout ==
    pc = "done" =>
        \E order \in Orders(DOMAIN srdb.keys) :
            /\ Merged = <<82, 69, 68, 73, 83, 48, 48, 48, 54>>
                            \o PartsInOrder(order, 1)
                            \o <<255>>
                            \o <<0, 0, 0, 0, 0, 0, 0, 0>>
            /\ ret = 9 + Len(PartsInOrder(order, 1)) + 9
            /\ ret = Len(Merged)

\* C4 witness: a merge of two databases is done.
C4_Witness ==
    /\ pc = "done"
    /\ Cardinality(DOMAIN srdb.keys) = 2
    /\ ret > 18

\* r, the parse of MERGE.rdb, is one whole RDB whose databases are, each
\* once, the numbers in nums
ParsesTo(r, nums) ==
    /\ IsDone(r)
    /\ r.i = <<>>
    /\ \A a, b \in 1..Len(r.o.dbs) : r.o.dbs[a].num.num = r.o.dbs[b].num.num => a = b
    /\ {r.o.dbs[j].num.num : j \in 1..Len(r.o.dbs)} = nums

\* C5: rdb accepts the output of merge to its end, and the databases it
\* reads there are, each once, the database numbers write was called for.
C5_MergeParses ==
    pc = "done" => ParsesTo(rdb(Merged), {history[w].num : w \in 1..Len(history)})

\* C5 witness: merge went over database 1 before database 0, and rdb reads
\* the two databases in that order.
C5_Witness ==
    /\ pc = "done"
    /\ IsDone(rdb(Merged))
    /\ NumbersOf(rdb(Merged).o.dbs) = <<1, 0>>

\* r, the parse of MERGE.rdb, has databases of the target set only
OnlyTargets(r, target) ==
    IsDone(r) /\ \A j \in 1..Len(r.o.dbs) : r.o.dbs[j].num.num \in target

\* C6: with a non-empty target set no record of a database outside it
\* reaches write, no intermediate exists for such a database and MERGE.rdb
\* has no header for it; with an empty set no database is left out.
C6_TargetFilter ==
    /\ target_db = {} => skipped = {}
    /\ target_db # {} =>
          /\ skipped \cap target_db = {}
          /\ \A w \in 1..Len(history) : history[w].num \in target_db
          /\ HasStore =>
                \A d \in DbNumbers :
                    d.num \notin target_db => part_rdb_path(srdb, d.num) \notin DOMAIN disk
          /\ pc = "done" => OnlyTargets(rdb(Merged), target_db)

\* C6 witness: with -d 1 a database 0 was left out, database 1 was written
\* and the merge is done.
C6_Witness ==
    /\ pc = "done"
    /\ target_db = {1}
    /\ 0 \in skipped
    /\ history # <<>>

\* C7: PartRDB::new on a path that is no directory answers an error and no
\* file exists afterwards; on a directory it answers a store with no open
\* intermediate and no recorded key.
C7_New ==
    pc # "start" =>
        IF dir_exists
        THEN /\ HasStore
             /\ srdb.check_duplication = check_duplication
             /\ (pc = "loop" /\ nfiles = 0) =>
                   srdb.files = EmptyMap /\ srdb.keys = EmptyMap /\ disk = NoFiles
        ELSE /\ srdb = NotFound
             /\ pc = "abort"
             /\ disk = NoFiles

\* C7 witness: the output path was no directory and main stopped on the
\* error of PartRDB::new.
C7_Witness ==
    /\ ~dir_exists
    /\ pc = "abort"
    /\ srdb = NotFound

\* C8: when rdb accepts a byte string to its end, the serialization of the
\* tree it built is that byte string, byte for byte.
C8_RoundTrip ==
    (codec.step = "ser" /\ codec.parsed.i = <<>>) => codec.output = codec.input

\* the decoded form of the key of a write call, in a build
Decoded(h, build) == DecodedKey(h.rec, build)

\* C9: with duplicate-checking enabled, a write whose key decodes to the
\* string an earlier key of the same database decoded to is discarded,
\* whatever the encodings of the two keys.
C9_DecodedKeys ==
    check_duplication =>
        \A w \in 1..Len(history) : \A build \in Builds :
            (\E a \in 1..(w - 1) :
                  /\ history[a].num = history[w].num
                  /\ Decoded(history[a], build).k = "Ok"
                  /\ Decoded(history[a], build) = Decoded(history[w], build))
               => ~history[w].changed

\* C10: a write whose key is an LZF string that does not decompress answers
\* an error and writes nothing when duplicate-checking is enabled, and
\* answers Ok and writes the record when it is disabled.
C10_BadLzfKey ==
    \A w \in 1..Len(history) :
        (history[w].rec.key.t = "Lzf" /\ \E build \in Builds : Decoded(history[w], build).k = "Err")
           => IF check_duplication
              THEN history[w].result = "Err" /\ ~history[w].changed
              ELSE history[w].result = "Ok" /\ history[w].changed

\* the parser fn was applied to the input of the state
Applied(fn) == pc = "parsers" /\ codec.step = "output" /\ codec.fn = fn

\* the bytes a length prefix that starts with b takes
PrefixLen(b) == CASE b < 64 -> 1 [] b < 128 -> 2 [] b < 192 -> 5 [] OTHER -> 1

\* the value the prefix at the head of i stands for
PrefixValue(i) ==
    CASE i[1] < 64  -> i[1]
      [] i[1] < 128 -> (i[1] - 64) * 256 + i[2]
      [] i[1] < 192 -> i[2] * 16777216 + i[3] * 65536 + i[4] * 256 + i[5]
      [] OTHER      -> i[1] - 192

\* C11: encoded_length decodes by the top two bits of the first byte: 00
\* takes 1 byte and yields Integer(low 6 bits), 01 takes 2 bytes and yields
\* Integer of the 14-bit big-endian value, 10 takes 5 bytes and yields
\* Integer of the big-endian u32 of bytes 1..4, 11 takes 1 byte and yields
\* Special(low 6 bits); the slice carried is the bytes taken and the rest of
\* the input is what is left.
C11_EncodedLength ==
    (Applied("encoded_length") /\ codec.input # <<>>
        /\ Len(codec.input) >= PrefixLen(codec.input[1])) =>
        LET i == codec.input
            n == PrefixLen(i[1])
            r == codec.output
        IN  /\ IsDone(r)
            /\ r.o.t = (IF i[1] >= 192 THEN "S" ELSE "I")
            /\ r.o.n = PrefixValue(i)
            /\ r.o.s = SubSeq(i, 1, n)
            /\ r.o.s \o r.i = i

\* C11 witness: 7F FF followed by two bytes was read as Integer 16383 on two
\* bytes, the two bytes left.
C11_Witness ==
    /\ Applied("encoded_length")
    /\ codec.input = <<127, 255, 0, 64>>
    /\ codec.output = Done(I(16383, <<127, 255>>), <<0, 64>>)

\* what the scan says for a payload none of whose indexes leaves the payload
\* or the output: the bytes appended.  A back-reference of n bytes that
\* starts at position start of out repeats the bytes from start to the end
\* of out, over and over.
Repeated(out, start, n) ==
    out \o [k \in 1..n |-> out[start + 1 + ((k - 1) % (Len(out) - start))]]

OutOfBounds == [ok |-> FALSE]

RECURSIVE Scan(_, _, _)
Scan(l, i, out) ==
    IF i >= Len(l) THEN [ok |-> TRUE, out |-> out]
    ELSE LET ctrl == l[i + 1]
         IN  IF ctrl < 32
             THEN IF i + 1 + ctrl + 1 > Len(l) THEN OutOfBounds
                  ELSE Scan(l, i + 1 + ctrl + 1, out \o SubSeq(l, i + 2, i + 1 + ctrl + 1))
             ELSE LET more == IF ctrl \div 32 = 7 THEN 2 ELSE 1
                  IN  IF i + more >= Len(l) THEN OutOfBounds
                      ELSE LET n     == IF more = 2 THEN 7 + l[i + 2] + 2 ELSE ctrl \div 32
                               start == Len(out) - ((ctrl % 32) * 256) - l[i + more + 1] - 1
                           IN  IF start < 0 THEN OutOfBounds
                               ELSE Scan(l, i + more + 1, Repeated(out, start, n))

\* C12: String::decode of an LZF string scans the control bytes of the
\* payload in order: ctrl < 0x20 appends the next ctrl+1 bytes; otherwise
\* backref_len = ctrl>>5 (plus the next byte + 2 when it is 7), one more
\* byte is read, and backref_len bytes are appended one at a time from
\* position out_len - ((ctrl & 0x1F) << 8) - next_byte - 1, so that a
\* reference that overlaps the bytes being appended repeats them; the test
\* vector gives 16 'a', '1', 16 'a'.
C12_LzfDecode ==
    Applied("decode") =>
        /\ Scan(codec.e.v, 0, <<>>).ok =>
              codec.output = Ok(from_utf8_lossy(Scan(codec.e.v, 0, <<>>).out))
        /\ codec.input = LzfTestVector =>
              codec.output = Ok([k \in 1..33 |-> IF k = 17 THEN 49 ELSE 97])

\* C12 witness: the test vector was decoded, its two back-references of 14
\* bytes each reaching one byte back into what they append, to 33
\* characters.
C12_Witness ==
    /\ Applied("decode")
    /\ codec.input = LzfTestVector
    /\ codec.output.k = "Ok"
    /\ Len(codec.output.s) = 33

\* the value variant of each of the nine value-type bytes
VariantOfTag(b) ==
    CASE b = 0 -> "V0" [] b = 1 -> "V1" [] b = 2 -> "V2" [] b = 3 -> "V3"
      [] b = 4 -> "V4" [] b = 10 -> "VA" [] b = 11 -> "VB" [] b = 12 -> "VC"
      [] b = 13 -> "VD" [] OTHER -> "none"

\* C13: record accepts a value-type byte only when it is one of 0x00, 0x01,
\* 0x02, 0x03, 0x04, 0x0A, 0x0B, 0x0C, 0x0D: with any other byte in that
\* place the parse fails, and the variant of an accepted record is the one
\* of its tag.
C13_ValueTypeBytes ==
    (Applied("record") /\ IsDone(codec.output) /\ codec.output.o.exp = <<>>) =>
        /\ codec.input[1] \in {0, 1, 2, 3, 4, 10, 11, 12, 13}
        /\ codec.output.o.val.vt = VariantOfTag(codec.input[1])

\* C14: String::decode of an LZF string never panics, and answers an error
\* for every payload in which an index would leave the payload or the
\* output: a literal run past the end of the payload, a missing extension
\* or offset byte, a back-reference to before the start of the output.
C14_DecodeErrors ==
    Applied("decode") =>
        /\ codec.output.k # "Panic"
        /\ ~Scan(codec.e.v, 0, <<>>).ok => codec.output = Err

\* i starts with a whole length prefix
HasPrefix(i) == i # <<>> /\ Len(i) >= PrefixLen(i[1])

\* what follows the length prefix at the head of i
AfterPrefix(i) == SubSeq(i, PrefixLen(i[1]) + 1, Len(i))

\* r is Done with a string of this variant whose payload is the first n
\* bytes of p, the other bytes of p left
Yields(r, variant, p, n) ==
    /\ IsDone(r)
    /\ r.o.t = variant
    /\ Len(r.o.v) = n
    /\ r.o.v \o r.i = p

\* C15: encoded_string reads a length prefix and then: Integer n yields Raw
\* with exactly n payload bytes; Special 0, 1, 2 yield Int with exactly 1, 2,
\* 4 payload bytes; Special 3 reads two more length prefixes, c and u, and
\* yields Lzf with exactly c payload bytes; any other Special is a parse
\* failure; the bytes after the string are left.
C15_EncodedString ==
    (Applied("encoded_string") /\ HasPrefix(codec.input)) =>
        LET i == codec.input
            p == AfterPrefix(i)
            r == codec.output
        IN  /\ (i[1] < 192 /\ Len(p) >= PrefixValue(i)) => Yields(r, "Raw", p, PrefixValue(i))
            /\ (i[1] = 192 /\ Len(p) >= 1) => Yields(r, "Int", p, 1)
            /\ (i[1] = 193 /\ Len(p) >= 2) => Yields(r, "Int", p, 2)
            /\ (i[1] = 194 /\ Len(p) >= 4) => Yields(r, "Int", p, 4)
            /\ (i[1] = 195 /\ HasPrefix(p) /\ p[1] < 192 /\ HasPrefix(AfterPrefix(p))
                  /\ Len(AfterPrefix(AfterPrefix(p))) >= PrefixValue(p)) =>
                  /\ Yields(r, "Lzf", AfterPrefix(AfterPrefix(p)), PrefixValue(p))
                  /\ r.o.c.n = PrefixValue(p)
                  /\ r.o.u.n = PrefixValue(AfterPrefix(p))
            /\ i[1] > 195 => r = Error
            /\ IsDone(r) => r.o.s.s = SubSeq(i, 1, PrefixLen(i[1]))

\* C15 witness: C3 01 02 30 00 was read as an LZF string of compressed length
\* 1 and uncompressed length 2 with the payload 30, the byte 00 left.
C15_Witness ==
    /\ Applied("encoded_string")
    /\ codec.input = <<195, 1, 2, 48, 0>>
    /\ codec.output = Done(Lzf(S(3, <<195>>), I(1, <<1>>), I(2, <<2>>), <<48>>), <<0>>)

\* C16: after any calls of write and close_part_files on one store, the
\* intermediate of every database is one database header followed by all
\* the records accepted so far, in order, and every key of the database's
\* seen-set has its record there: a write after close_part_files drops
\* nothing written before the close.
C16_SeenSetInFile ==
    pc = "store" =>
        \A num \in DOMAIN srdb.keys :
            LET p == database(Part(num))
            IN  /\ WellFormed(p, num)
                /\ p.o.records = RecsOf(SelectSeq(Written(num), LAMBDA h : h.accepted))
                /\ \A key \in srdb.keys[num] :
                      \E j \in 1..Len(p.o.records) : KeyOf(p.o.records[j]) = key

====
